---------------------------- MODULE Spec2Model ----------------------------
(***************************************************************************)
(* A model of dlt/common/schema/utils.py: schema name normalisation, hint  *)
(* defaults (apply_defaults / remove_defaults), the schema engine upgrade  *)
(* (upgrade_engine_version) and value coercion (coerce_type).              *)
(*                                                                         *)
(* Python str values are sequences of one-character strings, dict values   *)
(* are functions whose domain is the set of keys, None/Optional values are *)
(* sequences of length 0 or 1, and a mutable tables mapping is a cell of   *)
(* `heap` addressed by its index, so that aliasing and in-place mutation   *)
(* are visible.                                                            *)
(***************************************************************************)
EXTENDS Integers, Sequences, FiniteSets, TLC

VARIABLES
    schema_dict,    \* the schema document handed to the schema functions
    heap,           \* the tables mappings ever allocated; schema_dict["tables"] indexes it
    raised,         \* the exception the last call raised, None if it returned
    ops,            \* the calls made on the document so far, in order
    name,           \* the string last returned by (or first handed to) normalize_schema_name
    prev_name,      \* the argument of the last normalize_schema_name call
    calls,          \* number of normalize_schema_name calls made
    coerce_args,    \* the arguments (to_type, from_type, value) of coerce_type
    coerce_result   \* outcome of coerce_type, None before the call

vars == <<schema_dict, heap, raised, ops, name, prev_name, calls, coerce_args, coerce_result>>

schemaVars == <<schema_dict, heap, raised, ops>>
nameVars == <<name, prev_name, calls>>
coerceVars == <<coerce_args, coerce_result>>

-----------------------------------------------------------------------------
(* Bounds of the model *)

MaxStrLen == 3      \* longest string handed to normalize_schema_name
MaxCalls == 2       \* normalize_schema_name calls in a row
MaxNameLen == 5     \* longest legacy table name
MaxPatLen == 4      \* longest legacy filter pattern body (after ^)
MaxFilters == 2     \* most legacy exclude patterns
MaxVersion == 4     \* highest engine version a document declares
MaxOps == 3         \* calls made on one schema document
MaxInt == 300       \* largest magnitude of a bigint value

-----------------------------------------------------------------------------
(* Python values *)

None == <<>>
Some(x) == <<x>>

EmptyDict == [k \in {} |-> TRUE]
DictGet(d, k, default) == IF k \in DOMAIN d THEN d[k] ELSE default
DictPut(d, k, v) == [x \in (DOMAIN d) \cup {k} |-> IF x = k THEN v ELSE d[x]]
DictDel(d, k) == [x \in (DOMAIN d) \ {k} |-> d[x]]

StringsUpTo(alphabet, n) == UNION {[1..k -> alphabet] : k \in 0..n}

Digits == {"0", "1", "2", "3", "4", "5", "6", "7", "8", "9"}
UpperCase == <<"A", "B", "C", "D", "E", "F", "G", "H", "I", "J", "K", "L", "M",
               "N", "O", "P", "Q", "R", "S", "T", "U", "V", "W", "X", "Y", "Z">>
LowerCase == <<"a", "b", "c", "d", "e", "f", "g", "h", "i", "j", "k", "l", "m",
               "n", "o", "p", "q", "r", "s", "t", "u", "v", "w", "x", "y", "z">>
Letters == {UpperCase[i] : i \in 1..Len(UpperCase)} \cup {LowerCase[i] : i \in 1..Len(LowerCase)}

\* str.lower() on one character
Lower(c) ==
    IF \E i \in 1..Len(UpperCase) : UpperCase[i] = c
    THEN LowerCase[CHOOSE i \in 1..Len(UpperCase) : UpperCase[i] = c]
    ELSE c

\* s[start:stop] with Python's treatment of negative and out-of-range indices
PySlice(s, start, stop) ==
    LET n == Len(s)
        norm(i) == IF i < 0 THEN (IF i + n < 0 THEN 0 ELSE i + n)
                   ELSE (IF i > n THEN n ELSE i)
        a == norm(start)
        b == norm(stop)
    IN  IF a >= b THEN <<>> ELSE SubSeq(s, a + 1, b)

\* 0-based positions at which "__" starts in s
SepPositions(s) == {i \in 0..(Len(s) - 2) : s[i + 1] = "_" /\ s[i + 2] = "_"}
SetMax(S) == CHOOSE x \in S : \A y \in S : y <= x
SetMin(S) == CHOOSE x \in S : \A y \in S : x <= y
\* s.rfind("__") and s.find("__"): -1 when absent
RFind(s) == IF SepPositions(s) = {} THEN -1 ELSE SetMax(SepPositions(s))
Find(s) == IF SepPositions(s) = {} THEN -1 ELSE SetMin(SepPositions(s))

-----------------------------------------------------------------------------
(* normalize_schema_name *)

\* RE_LEADING_DIGITS.match(name)
RE_LEADING_DIGITS(s) == Len(s) > 0 /\ s[1] \in Digits

\* a character RE_NON_ALPHANUMERIC does not match
IsAlphanumeric(c) == c \in Letters \cup Digits

normalize_schema_name(s) ==
    LET prefixed == IF RE_LEADING_DIGITS(s) THEN <<"s">> \o s ELSE s
        kept == SelectSeq(prefixed, IsAlphanumeric)
    IN  [i \in 1..Len(kept) |-> Lower(kept[i])]

NameChars == {"1", "a", "A", "-"}

NormalizeSchemaName ==
    /\ calls < MaxCalls
    /\ prev_name' = name
    /\ name' = normalize_schema_name(name)
    /\ calls' = calls + 1
    /\ UNCHANGED <<schemaVars, coerceVars>>

-----------------------------------------------------------------------------
(* new_table, add_missing_hints *)

HintNames == {"partition", "cluster", "unique", "sort", "primary_key", "foreign_key"}

\* {**{hint: False ...}, **column}: the column's own entries take precedence
add_missing_hints(column) ==
    [k \in HintNames \cup DOMAIN column |-> IF k \in DOMAIN column THEN column[k] ELSE FALSE]

\* truthiness of an Optional[str]
IsTruthy(opt) == opt # None /\ opt[1] # <<>>

\* new_table(table_name, parent_name) with columns left at its default None
new_table(table_name, parent_name) ==
    LET table == ("name" :> table_name) @@ ("columns" :> EmptyDict)
    IN  IF IsTruthy(parent_name)
        THEN DictPut(table, "parent", parent_name[1])
        ELSE DictPut(table, "write_disposition", "append")

-----------------------------------------------------------------------------
(* upgrade_engine_version *)

DefaultNormalizers ==
    [names |-> "dlt.common.normalizers.names.snake_case",
     json |-> [module |-> "dlt.common.normalizers.json.relational",
               config |-> [propagation |-> [root |-> [_record_hash |-> "_root_hash"]]]]]

\* FindParent giving up when the nearest truncation is no legacy table
FindParent_nearest(parent, old_tables) ==
    LET idx == RFind(parent)
    IN  IF idx > 0 /\ PySlice(parent, 0, idx) \in DOMAIN old_tables
        THEN Some(PySlice(parent, 0, idx))
        ELSE None

\* the while loop that looks for an existing parent of a legacy table name
RECURSIVE FindParent(_, _)
FindParent(parent, old_tables) ==
    LET idx == RFind(parent)
    IN  IF idx > 0
        THEN LET p == PySlice(parent, 0, idx)
             IN  IF p \notin DOMAIN old_tables
                 THEN FindParent(p, old_tables)
                 ELSE Some(p)
        ELSE None

\* the for loop over old_tables: every legacy table becomes a new_table
\* holding the legacy column mapping
RepackageTables(old_tables) ==
    [n \in DOMAIN old_tables |->
        DictPut(new_table(n, FindParent(n, old_tables)), "columns", old_tables[n])]

\* root = f[1:f.find("__")]
FilterRoot(f) == PySlice(f, 1, Find(f))
\* path = f[f.find("__") + 2:]
FilterPath(f) == PySlice(f, Find(f) + 2, Len(f))

RECURSIVE migrate_filters(_, _, _)
migrate_filters(group, filters, tables) ==
    IF filters = <<>>
    THEN tables
    ELSE LET f == Head(filters)
             root == FilterRoot(f)
             path == FilterPath(f)
             t == IF root \in DOMAIN tables THEN tables[root] ELSE new_table(root, None)
             tfilters == DictGet(t, "filters", EmptyDict)
             patterns == DictGet(tfilters, group, <<>>)
             moved == DictPut(t, "filters",
                              DictPut(tfilters, group, Append(patterns, <<"^">> \o path)))
         IN  migrate_filters(group, Tail(filters), DictPut(tables, root, moved))

\* MigrateV1 forgetting to stamp the new engine version
MigrateV1_unstamped(d) ==
    DictPut(DictPut(d, "includes", <<>>), "excludes", <<>>)

\* the step "from_engine == 1 and to_engine > 1"
MigrateV1(d) ==
    DictPut(DictPut(DictPut(d, "engine_version", 2), "includes", <<>>), "excludes", <<>>)

\* PopSettings reading the legacy keys with get() instead of pop()
PopSettings_get(d) ==
    LET settings == ("default_hints" :> DictGet(d, "hints", EmptyDict))
                    @@ ("preferred_types" :> DictGet(d, "preferred_types", EmptyDict))
    IN  DictPut(d, "settings", settings)

\* schema_dict.pop("hints", {}) and schema_dict.pop("preferred_types", {})
PopSettings(d) ==
    LET settings == ("default_hints" :> DictGet(d, "hints", EmptyDict))
                    @@ ("preferred_types" :> DictGet(d, "preferred_types", EmptyDict))
    IN  DictPut(DictDel(DictDel(d, "hints"), "preferred_types"), "settings", settings)

\* the step "from_engine == 2 and to_engine > 2"; the new tables mapping is a
\* fresh dict, the popped legacy mapping is left as it was
MigrateV2(d, h) ==
    LET d1 == PopSettings(DictPut(d, "normalizers", DefaultNormalizers))
        old_tables == h[d["tables"]]
        repackaged == RepackageTables(old_tables)
        excluded == migrate_filters("excludes", DictGet(d1, "excludes", <<>>), repackaged)
        included == migrate_filters("includes", DictGet(d1, "includes", <<>>), excluded)
        d2 == DictPut(DictDel(DictDel(d1, "excludes"), "includes"), "tables", Len(h) + 1)
    IN  [schema_dict |-> DictPut(d2, "engine_version", 3), heap |-> Append(h, included)]

\* SchemaEngineNoUpgradePathException(schema_dict["name"], schema_dict["engine_version"],
\*                                    from_engine, to_engine)
NoUpgradePath(d, from_engine, to_engine) ==
    [exception |-> "SchemaEngineNoUpgradePathException",
     args |-> <<d["name"], d["engine_version"], from_engine, to_engine>>]

upgrade_engine_version(d, h, from_engine, to_engine) ==
    IF from_engine = to_engine
    THEN [schema_dict |-> d, heap |-> h, raised |-> None]
    ELSE LET s1 == IF from_engine = 1 /\ to_engine > 1
                   THEN [schema_dict |-> MigrateV1(d), heap |-> h, from_engine |-> 2]
                   ELSE [schema_dict |-> d, heap |-> h, from_engine |-> from_engine]
             s2 == IF s1.from_engine = 2 /\ to_engine > 2
                   THEN LET m == MigrateV2(s1.schema_dict, s1.heap)
                        IN  [schema_dict |-> m.schema_dict, heap |-> m.heap, from_engine |-> 3]
                   ELSE s1
         IN  [schema_dict |-> s2.schema_dict,
              heap |-> s2.heap,
              raised |-> IF s2.from_engine # to_engine
                         THEN Some(NoUpgradePath(s2.schema_dict, s2.from_engine, to_engine))
                         ELSE None]

Call(op, from_engine, to_engine) == [op |-> op, from_engine |-> from_engine, to_engine |-> to_engine]

\* the caller upgrades the document it loaded from the version the document declares
UpgradeEngineVersion ==
    /\ ops = <<>>
    /\ "engine_version" \in DOMAIN schema_dict
    /\ \E to_engine \in 0..(MaxVersion + 1) :
        LET from_engine == schema_dict["engine_version"]
            r == upgrade_engine_version(schema_dict, heap, from_engine, to_engine)
        IN  /\ schema_dict' = r.schema_dict
            /\ heap' = r.heap
            /\ raised' = r.raised
            /\ ops' = Append(ops, Call("upgrade_engine_version", from_engine, to_engine))
    /\ UNCHANGED <<nameVars, coerceVars>>

-----------------------------------------------------------------------------
(* apply_defaults, remove_defaults *)

\* the body of the loop over stored_schema["tables"].items()
ApplyTableDefaults(table_name, table) ==
    LET named == DictPut(table, "name", table_name)
        disposed == IF "parent" \notin DOMAIN named /\ "write_disposition" \notin DOMAIN named
                    THEN DictPut(named, "write_disposition", "append")
                    ELSE named
        columns == [c \in DOMAIN table["columns"] |->
                        DictPut(add_missing_hints(table["columns"][c]), "name", c)]
    IN  DictPut(disposed, "columns", columns)

\* mutates the tables mapping the document holds, in place
apply_defaults(d, h) ==
    LET tables == h[d["tables"]]
    IN  [schema_dict |-> d,
         heap |-> [h EXCEPT ![d["tables"]] =
                        [n \in DOMAIN tables |-> ApplyTableDefaults(n, tables[n])]]]

\* the column properties typed bool in TColumn: isinstance(c[h], bool)
BoolProps == HintNames \cup {"nullable"}

\* CleanColumn without the exception for nullable
CleanColumn_nullable(c) ==
    LET unnamed == DictDel(c, "name")
        dropped == {h \in DOMAIN unnamed : h \in BoolProps /\ unnamed[h] = FALSE}
    IN  [h \in (DOMAIN unnamed) \ dropped |-> unnamed[h]]

\* CleanColumn dropping every hint, whatever its value
CleanColumn_anyvalue(c) ==
    LET unnamed == DictDel(c, "name")
        dropped == {h \in DOMAIN unnamed : h \in BoolProps /\ h # "nullable"}
    IN  [h \in (DOMAIN unnamed) \ dropped |-> unnamed[h]]

\* the loop over list(c.keys()), after del c["name"]
CleanColumn(c) ==
    LET unnamed == DictDel(c, "name")
        dropped == {h \in DOMAIN unnamed : h \in BoolProps /\ unnamed[h] = FALSE /\ h # "nullable"}
    IN  [h \in (DOMAIN unnamed) \ dropped |-> unnamed[h]]

CleanTable(t) ==
    DictPut(DictDel(t, "name"), "columns",
            [c \in DOMAIN t["columns"] |-> CleanColumn(t["columns"][c])])

\* del t["name"] or del c["name"] raises KeyError when the key is missing
RemoveDefaultsRaises(tables) ==
    \E n \in DOMAIN tables :
        \/ "name" \notin DOMAIN tables[n]
        \/ \E c \in DOMAIN tables[n]["columns"] : "name" \notin DOMAIN tables[n]["columns"][c]

\* remove_defaults without the deepcopy: cleans the caller's tables in place
remove_defaults_inplace(d, h) ==
    LET tables == h[d["tables"]]
    IN  [schema_dict |-> d,
         heap |-> [h EXCEPT ![d["tables"]] = [n \in DOMAIN tables |-> CleanTable(tables[n])]]]

\* cleans a deep copy of the tables and stores the copy in the document
remove_defaults(d, h) ==
    LET tables == h[d["tables"]]
        clean_tables == [n \in DOMAIN tables |-> CleanTable(tables[n])]
    IN  [schema_dict |-> DictPut(d, "tables", Len(h) + 1),
         heap |-> Append(h, clean_tables)]

\* defaults are applied and removed on documents of the current engine version
Current(d) == "engine_version" \in DOMAIN d /\ d["engine_version"] = 3

ApplyDefaults ==
    /\ Len(ops) < MaxOps
    /\ raised = None
    /\ Current(schema_dict)
    /\ LET r == apply_defaults(schema_dict, heap)
       IN  /\ schema_dict' = r.schema_dict
           /\ heap' = r.heap
    /\ ops' = Append(ops, Call("apply_defaults", 0, 0))
    /\ UNCHANGED <<raised, nameVars, coerceVars>>

RemoveDefaults ==
    /\ Len(ops) < MaxOps
    /\ raised = None
    /\ Current(schema_dict)
    /\ IF RemoveDefaultsRaises(heap[schema_dict["tables"]])
       THEN /\ raised' = Some([exception |-> "KeyError", args |-> <<"name">>])
            /\ UNCHANGED <<schema_dict, heap>>
       ELSE LET r == remove_defaults(schema_dict, heap)
            IN  /\ schema_dict' = r.schema_dict
                /\ heap' = r.heap
                /\ UNCHANGED raised
    /\ ops' = Append(ops, Call("remove_defaults", 0, 0))
    /\ UNCHANGED <<nameVars, coerceVars>>

-----------------------------------------------------------------------------
(* Schema documents the model starts from *)

Str_a == <<"a">>
Str_a__a == <<"a", "_", "_", "a">>

\* a legacy column mapping: column name -> column
LegacyColumns == "id" :> [data_type |-> "bigint", nullable |-> FALSE]

LegacyNames == StringsUpTo({"a", "_"}, MaxNameLen) \ {<<>>}
ProperPrefixes(s) == {SubSeq(s, 1, k) : k \in 1..(Len(s) - 1)}

Patterns == {<<"^">> \o b : b \in StringsUpTo({"a", "_"}, MaxPatLen)}
SeqsUpTo(S, n) == UNION {[1..k -> S] : k \in 0..n}

HintSettings == {EmptyDict, [not_null |-> <<"^_dlt_id$">>]}
TypeSettings == {EmptyDict, [timestamp |-> "timestamp"]}

\* with each key of `optional` either present or absent
WithOptional(base, optional) ==
    {[k \in (DOMAIN base) \cup present |-> IF k \in DOMAIN base THEN base[k] ELSE optional[k]] :
        present \in SUBSET DOMAIN optional}

LegacyTableSets == {{}, {Str_a}, {Str_a, Str_a__a}}

\* a document of engine version 1 or 2 (or of an unknown older version)
LegacyDocs(version) ==
    UNION {WithOptional(("name" :> "event") @@ ("engine_version" :> version) @@ ("tables" :> 1)
                            @@ (IF version = 2
                                THEN ("includes" :> <<>>) @@ ("excludes" :> excludes)
                                ELSE EmptyDict),
                        ("hints" :> hints) @@ ("preferred_types" :> types)) :
           hints \in HintSettings \ {EmptyDict},
           types \in TypeSettings \ {EmptyDict},
           excludes \in {<<>>, <<<<"^">> \o Str_a__a>>}}

\* a document of the current shape (engine version 3 and, unsupported, above)
CurrentDoc(version) ==
    ("name" :> "event") @@ ("engine_version" :> version) @@ ("tables" :> 1)
        @@ ("normalizers" :> DefaultNormalizers)
        @@ ("settings" :> [default_hints |-> EmptyDict, preferred_types |-> EmptyDict])

StoredColumn == [data_type |-> "text", nullable |-> TRUE]

\* documents of every declared version, few tables
InitVersions ==
    \E version \in 0..MaxVersion :
        IF version <= 2
        THEN /\ schema_dict \in LegacyDocs(version)
             /\ \E T \in LegacyTableSets : heap = <<[n \in T |-> LegacyColumns]>>
        ELSE /\ schema_dict = CurrentDoc(version)
             /\ \E T \in LegacyTableSets :
                    heap = <<[n \in T |-> DictPut(new_table(n, None), "columns",
                                                  "id" :> StoredColumn)]>>

\* version 2 documents whose tables are a legacy name and any of its prefixes
InitParents ==
    /\ schema_dict = ("name" :> "event") @@ ("engine_version" :> 2) @@ ("tables" :> 1)
    /\ \E n \in LegacyNames : \E S \in SUBSET ProperPrefixes(n) :
            heap = <<[x \in S \cup {n} |-> LegacyColumns]>>

\* version 2 documents with legacy filters
InitFilters ==
    /\ \E excludes \in SeqsUpTo(Patterns, MaxFilters) :
       \E includes \in {<<>>, <<<<"^">> \o Str_a__a>>} :
            schema_dict = ("name" :> "event") @@ ("engine_version" :> 2) @@ ("tables" :> 1)
                            @@ ("includes" :> includes) @@ ("excludes" :> excludes)
    /\ \E T \in LegacyTableSets : heap = <<[n \in T |-> LegacyColumns]>>

\* columns with every choice of hints present, each True or False
HintChoices == UNION {[present -> BOOLEAN] : present \in SUBSET HintNames}
StoredColumns ==
    UNION {WithOptional([k \in {"data_type", "nullable"} \cup DOMAIN hints |->
                            IF k = "data_type" THEN "bigint"
                            ELSE IF k = "nullable" THEN nullable ELSE hints[k]],
                        "name" :> "stale") :
           hints \in HintChoices, nullable \in BOOLEAN}

ChildTable ==
    [parent |-> Str_a,
     columns |-> "value" :> [data_type |-> "text", nullable |-> TRUE,
                             unique |-> TRUE, sort |-> FALSE]]

RootTables(column) ==
    {[columns |-> "id" :> column],
     [name |-> <<"stale">>, write_disposition |-> "replace", columns |-> "id" :> column]}

\* version 3 documents as read from storage: a root table with one column of
\* any hints, and a child table
InitStored ==
    /\ schema_dict = CurrentDoc(3)
    /\ \E column \in StoredColumns : \E root \in RootTables(column) :
            heap = <<(Str_a :> root) @@ (Str_a__a :> ChildTable)>>

-----------------------------------------------------------------------------
(* Python values handed to and returned by coerce_type.  A value is a     *)
(* record: py is its Python type, n/d the number of an int (d = 1), bool    *)
(* (0 or 1) or float (a fraction in lowest terms), n and e the coefficient  *)
(* and exponent of a Decimal, n the epoch seconds of a datetime, s the      *)
(* characters of a str, b the bytes of a bytes or the items of a list.      *)

Val(py, n, d, e, s, b) == [py |-> py, n |-> n, d |-> d, e |-> e, s |-> s, b |-> b]

RECURSIVE GCD(_, _)
GCD(x, y) == IF y = 0 THEN x ELSE GCD(y, x % y)
Abs(x) == IF x < 0 THEN -x ELSE x
RECURSIVE Pow(_, _)
Pow(base, k) == IF k = 0 THEN 1 ELSE base * Pow(base, k - 1)

PyInt(n) == Val("int", n, 1, 0, <<>>, <<>>)
PyBool(t) == Val("bool", IF t THEN 1 ELSE 0, 1, 0, <<>>, <<>>)
PyFloat(n, d) == LET g == GCD(Abs(n), d) IN Val("float", n \div g, d \div g, 0, <<>>, <<>>)
PyDecimal(n, e) == Val("Decimal", n, 1, e, <<>>, <<>>)
PyStr(s) == Val("str", 0, 1, 0, s, <<>>)
PyBytes(b) == Val("bytes", 0, 1, 0, <<>>, b)
PyList(b) == Val("list", 0, 1, 0, <<>>, b)
PyDatetime(n) == Val("datetime", n, 1, 0, <<>>, <<>>)

\* the outcome of a call: the value returned, or the exception raised, with the
\* value it was constructed with (None for an error a builtin raises with its
\* own message) and the source line that raised it
Return(v) == [ok |-> TRUE, value |-> Some(v), exception |-> "", carries |-> None, line |-> 0]
Raise(exception, carries, line) ==
    [ok |-> FALSE, value |-> None, exception |-> exception, carries |-> carries, line |-> line]

DigitChars == <<"0", "1", "2", "3", "4", "5", "6", "7", "8", "9">>
HexChars == <<"0", "1", "2", "3", "4", "5", "6", "7", "8", "9", "a", "b", "c", "d", "e", "f">>
Base64Chars ==
    <<"A", "B", "C", "D", "E", "F", "G", "H", "I", "J", "K", "L", "M", "N",
      "O", "P", "Q", "R", "S", "T", "U", "V", "W", "X", "Y", "Z", "a", "b",
      "c", "d", "e", "f", "g", "h", "i", "j", "k", "l", "m", "n", "o", "p",
      "q", "r", "s", "t", "u", "v", "w", "x", "y", "z", "0", "1", "2", "3",
      "4", "5", "6", "7", "8", "9", "+", "/">>

IndexIn(chars, c) == CHOOSE i \in 1..Len(chars) : chars[i] = c
IsIn(chars, c) == \E i \in 1..Len(chars) : chars[i] = c
IsHexDigit(c) == IsIn(HexChars, Lower(c))
HexValue(c) == IndexIn(HexChars, Lower(c)) - 1

\* str(n) of an int
RECURSIVE NatToStr(_)
NatToStr(n) == IF n < 10 THEN <<DigitChars[n + 1]>> ELSE NatToStr(n \div 10) \o <<DigitChars[(n % 10) + 1]>>
IntToStr(n) == IF n < 0 THEN <<"-">> \o NatToStr(-n) ELSE NatToStr(n)
\* n in decimal, zero-padded on the left to `width` digits
RECURSIVE Padded(_, _)
Padded(n, width) == IF width <= 0 THEN <<>> ELSE Padded(n \div 10, width - 1) \o <<DigitChars[(n % 10) + 1]>>

\* str.strip(), for the blank as the one whitespace character
RECURSIVE LStrip(_)
LStrip(s) == IF s # <<>> /\ Head(s) = " " THEN LStrip(Tail(s)) ELSE s
RECURSIVE RStrip(_)
RStrip(s) == IF s # <<>> /\ s[Len(s)] = " " THEN RStrip(SubSeq(s, 1, Len(s) - 1)) ELSE s
Strip(s) == RStrip(LStrip(s))

StartsWith0x(s) == Len(s) >= 2 /\ s[1] = "0" /\ s[2] = "x"
Contains(s, c) == \E i \in 1..Len(s) : s[i] = c

\* the digits of a numeric literal part, in which single underscores may
\* separate digits; None if it is not such a part. `base` is 10 or 16.
IsDigitIn(c, base) == IF base = 16 THEN IsHexDigit(c) ELSE c \in Digits
DigitGroup(s, base) ==
    IF /\ s # <<>>
       /\ s[1] # "_" /\ s[Len(s)] # "_"
       /\ \A i \in 1..Len(s) : s[i] = "_" \/ IsDigitIn(s[i], base)
       /\ \A i \in 1..(Len(s) - 1) : ~(s[i] = "_" /\ s[i + 1] = "_")
    THEN Some(SelectSeq(s, LAMBDA c : c # "_"))
    ELSE None
RECURSIVE DigitsValue(_, _)
DigitsValue(ds, base) ==
    IF ds = <<>> THEN 0 ELSE DigitsValue(SubSeq(ds, 1, Len(ds) - 1), base) * base + HexValue(ds[Len(ds)])

HasSign(s) == s # <<>> /\ s[1] \in {"+", "-"}
Unsigned(s) == IF HasSign(s) THEN Tail(s) ELSE s
Signed(s, magnitude) == IF HasSign(s) /\ s[1] = "-" THEN -magnitude ELSE magnitude

\* the literal after an optional 0x / 0X prefix, which int accepts in base 16
Unprefixed(body, base) ==
    IF base = 16 /\ Len(body) >= 2 /\ body[1] = "0" /\ body[2] \in {"x", "X"}
    THEN SubSeq(body, 3, Len(body))
    ELSE body
\* the number a stripped literal s denotes, given the digits of its body
IntOfGroup(s, group, base) ==
    IF group = None THEN None ELSE Some(Signed(s, DigitsValue(group[1], base)))
IntOfStripped(s, base) == IntOfGroup(s, DigitGroup(Unprefixed(Unsigned(s), base), base), base)
\* int(s) and int(s, 16): Some(number), or None where int raises ValueError
ParseInt(s, base) == IntOfStripped(Strip(s), base)

\* s cut at the first of `chars`: the text before it, the text after it, and
\* whether one was found
FirstIndex(s, chars) ==
    IF \E i \in 1..Len(s) : s[i] \in chars
    THEN SetMin({i \in 1..Len(s) : s[i] \in chars})
    ELSE 0
CutAt(s, pos) ==
    [found |-> pos # 0,
     before |-> IF pos = 0 THEN s ELSE SubSeq(s, 1, pos - 1),
     after |-> IF pos = 0 THEN <<>> ELSE SubSeq(s, pos + 1, Len(s))]
Cut(s, chars) == CutAt(s, FirstIndex(s, chars))
\* the digits of the whole or fractional part of a mantissa, which may be empty
OptionalDigits(part) == IF part = <<>> THEN Some(<<>>) ELSE DigitGroup(part, 10)
\* the exponent after the e of a literal; it admits no blank
ExponentOf(cut) ==
    IF ~cut.found THEN Some(0)
    ELSE IF Contains(cut.after, " ") THEN None
    ELSE ParseInt(cut.after, 10)
LiteralOfDigits(s, wholeDigits, fractionDigits, exponent) ==
    IF \/ wholeDigits = None \/ fractionDigits = None \/ exponent = None
       \/ (wholeDigits = Some(<<>>) /\ fractionDigits = Some(<<>>))
    THEN None
    ELSE Some([n |-> Signed(s, DigitsValue(wholeDigits[1] \o fractionDigits[1], 10)),
               e |-> exponent[1] - Len(fractionDigits[1])])
LiteralOfMantissa(s, mantissa, exponent) ==
    LiteralOfDigits(s, OptionalDigits(mantissa.before), OptionalDigits(mantissa.after), exponent)
LiteralOfBody(s, body) == LiteralOfMantissa(s, Cut(body.before, {"."}), ExponentOf(body))
\* a decimal literal [sign] digits [. digits] [e [sign] digits] as float() and
\* Decimal() read it: Some([n, e]) for the number n * 10^e, else None
ParseLiteral(s) == LiteralOfBody(s, Cut(Unsigned(s), {"e", "E"}))

\* the float with the value n * 10^e
FloatOf(n, e) == IF e >= 0 THEN PyFloat(n * Pow(10, e), 1) ELSE PyFloat(n, Pow(10, -e))
FloatOfLiteral(parsed) == IF parsed = None THEN None ELSE Some(FloatOf(parsed[1].n, parsed[1].e))
DecimalOfLiteral(parsed) == IF parsed = None THEN None ELSE Some(PyDecimal(parsed[1].n, parsed[1].e))
\* float(s): Some(float) or None where float raises ValueError
ParseFloat(s) == FloatOfLiteral(ParseLiteral(Strip(s)))
\* Decimal(s): Some(Decimal) or None where Decimal raises ConversionSyntax
ParseDecimal(s) == DecimalOfLiteral(ParseLiteral(Strip(s)))

\* k with 2^k = d, for the denominator of a float
Log2(d) == CHOOSE k \in 0..64 : Pow(2, k) = d
\* Decimal(value) of a float: the exact decimal expansion
DecimalOfFloat(v) == LET k == Log2(v.d) IN PyDecimal(v.n * Pow(5, k), -k)
\* value % 1 != 0 of a float or a Decimal
HasFraction(v) ==
    IF v.py = "float" THEN v.d # 1
    ELSE v.e < 0 /\ v.n % Pow(10, -v.e) # 0
\* int(value) of a float or a Decimal: truncation towards zero
Truncate(v) ==
    LET magnitude == IF v.py = "float" THEN Abs(v.n) \div v.d
                     ELSE IF v.e >= 0 THEN Abs(v.n) * Pow(10, v.e)
                     ELSE Abs(v.n) \div Pow(10, -v.e)
    IN  PyInt(IF v.n < 0 THEN -magnitude ELSE magnitude)
\* float(value) of an int or a Decimal
ToFloat(v) == IF v.py = "Decimal" THEN FloatOf(v.n, v.e) ELSE PyFloat(v.n, 1)

\* str(value) of a float: repr with at least one decimal
FloatStr(v) ==
    LET k == Log2(v.d)
        scaled == Abs(v.n) * Pow(5, k)
    IN  (IF v.n < 0 THEN <<"-">> ELSE <<>>)
        \o NatToStr(scaled \div Pow(10, k)) \o <<".">>
        \o (IF k = 0 THEN <<"0">> ELSE Padded(scaled % Pow(10, k), k))

\* str(value) of a Decimal: plain notation for an exponent <= 0, else scientific
DecimalStr(v) ==
    LET sign == IF v.n < 0 THEN <<"-">> ELSE <<>>
        digits == NatToStr(Abs(v.n))
    IN  IF v.e = 0 THEN sign \o digits
        ELSE IF v.e < 0
        THEN sign \o NatToStr(Abs(v.n) \div Pow(10, -v.e)) \o <<".">>
                  \o Padded(Abs(v.n) % Pow(10, -v.e), -v.e)
        ELSE sign \o <<Head(digits)>>
                  \o (IF Len(digits) > 1 THEN <<".">> \o Tail(digits) ELSE <<>>)
                  \o <<"E", "+">> \o IntToStr(v.e + Len(digits) - 1)

\* str(value) of bytes none of which is printable ASCII, a tab, newline or return
RECURSIVE BytesEscaped(_)
BytesEscaped(b) ==
    IF b = <<>> THEN <<>>
    ELSE <<"\\", "x", HexChars[(Head(b) \div 16) + 1], HexChars[(Head(b) % 16) + 1]>>
         \o BytesEscaped(Tail(b))
BytesStr(v) == <<"b", "'">> \o BytesEscaped(v.b) \o <<"'">>

\* the proleptic Gregorian date of a day number counted from 1970-01-01: the
\* 400-year era, the day and year of the era, the day of the year counted from
\* March 1st, and the month counted from March
CivilOfMonth(era, yoe, doy, mp) ==
    [year |-> yoe + era * 400 + (IF mp >= 10 THEN 1 ELSE 0),
     month |-> IF mp < 10 THEN mp + 3 ELSE mp - 9,
     day |-> doy - ((153 * mp + 2) \div 5) + 1]
CivilOfDay(era, yoe, doy) == CivilOfMonth(era, yoe, doy, (5 * doy + 2) \div 153)
CivilOfYear(era, doe, yoe) ==
    CivilOfDay(era, yoe, doe - (365 * yoe + (yoe \div 4) - (yoe \div 100)))
CivilOfEra(era, doe) ==
    CivilOfYear(era, doe, (doe - (doe \div 1460) + (doe \div 36524) - (doe \div 146096)) \div 365)
CivilFromDays(days) == CivilOfEra((days + 719468) \div 146097, (days + 719468) % 146097)

\* the ISO-8601 text of a date, the second of the day and the microseconds,
\* with `sep` between date and time; microseconds only when not zero
FormatDateTime(date, sod, micros, sep) ==
    Padded(date.year, 4) \o <<"-">> \o Padded(date.month, 2) \o <<"-">> \o Padded(date.day, 2)
    \o <<sep>>
    \o Padded(sod \div 3600, 2) \o <<":">> \o Padded((sod % 3600) \div 60, 2)
    \o <<":">> \o Padded(sod % 60, 2)
    \o (IF micros = 0 THEN <<>> ELSE <<".">> \o Padded(micros, 6))
    \o <<"+", "0", "0", ":", "0", "0">>
\* the ISO-8601 text of the UTC instant n/d seconds after the epoch
IsoFormat(n, d, sep) ==
    FormatDateTime(CivilFromDays((n \div d) \div 86400), (n \div d) % 86400,
                   ((n % d) * 1000000) \div d, sep)

\* str(pendulum.from_timestamp(value)) of an int or a float
FromTimestamp(v) == PyStr(IsoFormat(v.n, v.d, "T"))

\* str(value): the natural text of a value
StrOf(v) ==
    CASE v.py = "int" -> IntToStr(v.n)
      [] v.py = "bool" -> IF v.n = 1 THEN <<"T", "r", "u", "e">> ELSE <<"F", "a", "l", "s", "e">>
      [] v.py = "float" -> FloatStr(v)
      [] v.py = "Decimal" -> DecimalStr(v)
      [] v.py = "bytes" -> BytesStr(v)
      [] v.py = "datetime" -> IsoFormat(v.n, 1, " ")
      [] OTHER -> v.s

\* json.dumps(value) of a list of ints
RECURSIVE JoinInts(_)
JoinInts(items) ==
    IF items = <<>> THEN <<>>
    ELSE IntToStr(Head(items))
         \o (IF Tail(items) = <<>> THEN <<>> ELSE <<",", " ">> \o JoinInts(Tail(items)))
JsonDumps(v) == PyStr(<<"[">> \o JoinInts(v.b) \o <<"]">>)

\* bytes.fromhex(s): whitespace is skipped between bytes; None for ValueError
PrependByte(byte, rest) == IF rest = None THEN None ELSE Some(<<byte>> \o rest[1])
RECURSIVE FromHex(_)
FromHex(s) ==
    IF s = <<>> THEN Some(<<>>)
    ELSE IF Head(s) = " " THEN FromHex(Tail(s))
    ELSE IF Len(s) >= 2 /\ IsHexDigit(s[1]) /\ IsHexDigit(s[2])
    THEN PrependByte(HexValue(s[1]) * 16 + HexValue(s[2]), FromHex(SubSeq(s, 3, Len(s))))
    ELSE None

\* base64.b64decode(s, validate=True): None for binascii.Error
RECURSIVE Base64Quads(_)
Base64Quads(data) ==
    IF Len(data) < 2 THEN <<>>
    ELSE LET sextet(i) == IF i <= Len(data) THEN IndexIn(Base64Chars, data[i]) - 1 ELSE 0
             bits == sextet(1) * 262144 + sextet(2) * 4096 + sextet(3) * 64 + sextet(4)
             octets == <<bits \div 65536, (bits \div 256) % 256, bits % 256>>
             count == IF Len(data) >= 4 THEN 3 ELSE Len(data) - 1
         IN  SubSeq(octets, 1, count)
             \o (IF Len(data) > 4 THEN Base64Quads(SubSeq(data, 5, Len(data))) ELSE <<>>)
B64Decode(s) ==
    LET padding == IF s # <<>> /\ s[Len(s)] = "="
                   THEN (IF Len(s) >= 2 /\ s[Len(s) - 1] = "=" THEN 2 ELSE 1)
                   ELSE 0
        data == SubSeq(s, 1, Len(s) - padding)
    IN  IF Len(s) % 4 = 0 /\ (\A i \in 1..Len(data) : IsIn(Base64Chars, data[i]))
           /\ (padding > 0 => Len(data) > 0)
        THEN Some(Base64Quads(data))
        ELSE None

\* value.bit_length()
RECURSIVE BitLength(_)
BitLength(n) == IF n = 0 THEN 0 ELSE 1 + BitLength(Abs(n) \div 2)
\* value.to_bytes(length, 'little'): unsigned, so a negative int is an OverflowError
ToBytesLittle(n, length) == [i \in 1..length |-> (n \div Pow(256, i - 1)) % 256]

\* isoparse(s) accepts s. Of the ISO-8601 grammar dateutil reads, this covers
\* YYYY, YYYY-MM, YYYY-MM-DD and YYYYMMDD, alone or followed by one separator
\* character and HH:MM:SS with an optional Z or +HH:MM / -HH:MM offset.
AllDigits(s) == \A i \in 1..Len(s) : s[i] \in Digits
Number(s) == DigitsValue(s, 10)
DaysInMonth(year, month) ==
    IF month = 2
    THEN (IF year % 4 = 0 /\ (year % 100 # 0 \/ year % 400 = 0) THEN 29 ELSE 28)
    ELSE IF month \in {4, 6, 9, 11} THEN 30 ELSE 31
IsIsoTime(s) ==
    /\ Len(s) >= 8
    /\ AllDigits(SubSeq(s, 1, 2)) /\ s[3] = ":" /\ AllDigits(SubSeq(s, 4, 5)) /\ s[6] = ":"
    /\ AllDigits(SubSeq(s, 7, 8))
    /\ Number(SubSeq(s, 1, 2)) <= 23 /\ Number(SubSeq(s, 4, 5)) <= 59
    /\ Number(SubSeq(s, 7, 8)) <= 59
    /\ LET zone == SubSeq(s, 9, Len(s))
       IN  \/ zone = <<>>
           \/ zone = <<"Z">>
           \/ /\ Len(zone) = 6 /\ zone[1] \in {"+", "-"} /\ zone[4] = ":"
              /\ AllDigits(SubSeq(zone, 2, 3)) /\ AllDigits(SubSeq(zone, 5, 6))
              /\ Number(SubSeq(zone, 2, 3)) <= 23 /\ Number(SubSeq(zone, 5, 6)) <= 59
IsIsoString(s) ==
    /\ Len(s) >= 4
    /\ AllDigits(SubSeq(s, 1, 4))
    /\ Number(SubSeq(s, 1, 4)) >= 1
    /\ LET year == Number(SubSeq(s, 1, 4))
           has_sep == Len(s) >= 5 /\ s[5] = "-"
           mpos == IF has_sep THEN 6 ELSE 5
           month == Number(SubSeq(s, mpos, mpos + 1))
           dpos == IF has_sep THEN mpos + 3 ELSE mpos + 2
           day == Number(SubSeq(s, dpos, dpos + 1))
       IN  \/ Len(s) = 4
           \/ /\ Len(s) >= mpos + 1
              /\ AllDigits(SubSeq(s, mpos, mpos + 1))
              /\ month \in 1..12
              /\ \/ Len(s) = mpos + 1 /\ has_sep
                 \/ /\ Len(s) >= dpos + 1
                    /\ has_sep => s[dpos - 1] = "-"
                    /\ AllDigits(SubSeq(s, dpos, dpos + 1))
                    /\ day \in 1..DaysInMonth(year, month)
                    /\ \/ Len(s) = dpos + 1
                       \/ Len(s) > dpos + 2 /\ IsIsoTime(SubSeq(s, dpos + 3, Len(s)))

-----------------------------------------------------------------------------
(* coerce_type.  A rule gives Some(outcome) when it returns or raises and   *)
(* None when control falls through to the statements after it.              *)

DataTypes == {"text", "bigint", "double", "bool", "binary", "complex", "decimal", "timestamp", "wei"}

\* if to_type == from_type
RuleSame(to_type, from_type, value) ==
    IF to_type = from_type
    THEN Some(IF to_type = "complex" THEN Return(JsonDumps(value)) ELSE Return(value))
    ELSE None

\* if to_type == "text"
RuleText(to_type, from_type, value) ==
    IF to_type = "text"
    THEN Some(IF from_type = "complex" THEN Return(JsonDumps(value)) ELSE Return(PyStr(StrOf(value))))
    ELSE None

\* the outcome of a statement that returns what a conversion gives and raises
\* ValueError where the conversion fails
ReturnOrRaise(converted, carries, line) ==
    Some(IF converted = None THEN Raise("ValueError", carries, line) ELSE Return(converted[1]))
AsBytes(decoded) == IF decoded = None THEN None ELSE Some(PyBytes(decoded[1]))
AsInt(parsed) == IF parsed = None THEN None ELSE Some(PyInt(parsed[1]))
AsFloat(parsed) == IF parsed = None THEN None ELSE Some(PyFloat(parsed[1], 1))

\* if to_type == "binary"
RuleBinary(to_type, from_type, value) ==
    IF to_type = "binary" /\ from_type = "text"
    THEN IF StartsWith0x(value.s)
         THEN ReturnOrRaise(AsBytes(FromHex(SubSeq(value.s, 3, Len(value.s)))), None, 197)
         ELSE ReturnOrRaise(AsBytes(B64Decode(value.s)), Some(value), 201)
    ELSE IF to_type = "binary" /\ from_type = "bigint"
    THEN Some(IF value.n < 0 THEN Raise("OverflowError", None, 203)
              ELSE Return(PyBytes(ToBytesLittle(value.n, (BitLength(value.n) + 7) \div 8))))
    ELSE None

\* int(trim_value[2:], 16) if trim_value.startswith("0x") else int(trim_value)
ParseHexOrInt(trim_value) ==
    IF StartsWith0x(trim_value)
    THEN ParseInt(SubSeq(trim_value, 3, Len(trim_value)), 16)
    ELSE ParseInt(trim_value, 10)

\* RuleInteger also letting a wei through unchanged
RuleInteger_wei(to_type, from_type, value) ==
    IF to_type \notin {"wei", "bigint"} THEN None
    ELSE IF from_type \in {"bigint", "wei"} THEN Some(Return(value))
    ELSE IF from_type \in {"decimal", "double"}
    THEN Some(IF HasFraction(value) THEN Raise("ValueError", Some(value), 211)
              ELSE Return(Truncate(value)))
    ELSE IF from_type = "text"
    THEN LET trim_value == Strip(value.s)
         IN  ReturnOrRaise(AsInt(ParseHexOrInt(trim_value)), None,
                           IF StartsWith0x(trim_value) THEN 216 ELSE 218)
    ELSE None

\* if to_type in ["wei", "bigint"]
RuleInteger(to_type, from_type, value) ==
    IF to_type \notin {"wei", "bigint"} THEN None
    ELSE IF from_type = "bigint" THEN Some(Return(value))
    ELSE IF from_type \in {"decimal", "double"}
    THEN Some(IF HasFraction(value) THEN Raise("ValueError", Some(value), 211)
              ELSE Return(Truncate(value)))
    ELSE IF from_type = "text"
    THEN LET trim_value == Strip(value.s)
         IN  ReturnOrRaise(AsInt(ParseHexOrInt(trim_value)), None,
                           IF StartsWith0x(trim_value) THEN 216 ELSE 218)
    ELSE None

\* if to_type == "double"
RuleDouble(to_type, from_type, value) ==
    IF to_type # "double" THEN None
    ELSE IF from_type \in {"bigint", "wei", "decimal"} THEN Some(Return(ToFloat(value)))
    ELSE IF from_type = "text"
    THEN LET trim_value == Strip(value.s)
         IN  IF StartsWith0x(trim_value)
             THEN ReturnOrRaise(AsFloat(ParseInt(SubSeq(trim_value, 3, Len(trim_value)), 16)),
                                None, 226)
             ELSE ReturnOrRaise(ParseFloat(trim_value), None, 228)
    ELSE None

\* if to_type == "decimal"
RuleDecimal(to_type, from_type, value) ==
    IF to_type # "decimal" THEN None
    ELSE IF from_type \in {"bigint", "wei"} THEN Some(Return(value))
    ELSE IF from_type = "double" THEN Some(Return(DecimalOfFloat(value)))
    ELSE IF from_type = "text"
    THEN LET trim_value == Strip(value.s)
         IN  IF StartsWith0x(trim_value) \/ (~Contains(trim_value, ".") /\ ~Contains(trim_value, "e"))
             THEN ReturnOrRaise(AsInt(ParseHexOrInt(trim_value)), None,
                                IF StartsWith0x(trim_value) THEN 238 ELSE 240)
             ELSE ReturnOrRaise(ParseDecimal(trim_value), Some(PyStr(trim_value)), 245)
    ELSE None

\* the number of a text that is no ISO string: int(value), else float(value)
NumberOf(asInt, asFloat) == IF asInt # None THEN AsInt(asInt) ELSE asFloat
TimestampOf(number) == IF number = None THEN None ELSE Some(FromTimestamp(number[1]))

\* if to_type == "timestamp"
RuleTimestamp(to_type, from_type, value) ==
    IF to_type # "timestamp" THEN None
    ELSE IF from_type \in {"bigint", "double"} THEN Some(Return(FromTimestamp(value)))
    ELSE IF from_type = "text"
    THEN IF IsIsoString(value.s) THEN Some(Return(value))
         ELSE ReturnOrRaise(TimestampOf(NumberOf(ParseInt(value.s, 10), ParseFloat(value.s))),
                            None, 263)
    ELSE None

\* the outcome of the first rule that applies, else what the last statement raises
FirstTaken(rules, fallthrough) ==
    LET taken == {i \in 1..Len(rules) : rules[i] # None}
    IN  IF taken = {} THEN fallthrough ELSE rules[SetMin(taken)][1]

coerce_type(to_type, from_type, value) ==
    FirstTaken(<<RuleSame(to_type, from_type, value),
                 RuleText(to_type, from_type, value),
                 RuleBinary(to_type, from_type, value),
                 RuleInteger(to_type, from_type, value),
                 RuleDouble(to_type, from_type, value),
                 RuleDecimal(to_type, from_type, value),
                 RuleTimestamp(to_type, from_type, value)>>,
               Raise("ValueError", Some(value), 266))

Texts ==
    {<<>>,
     <<"0", "x", "f", "f">>,
     <<"0", "x", "0", "a">>,
     <<"0", "x", "z", "z">>,
     <<"A", "Q", "I", "=">>,
     <<"a", "b", "c">>,
     <<" ", "1", "2", " ">>,
     <<"-", "7">>,
     <<"1", ".", "5">>,
     <<"1", ".", "5", "0">>,
     <<"1", "e", "1">>,
     <<"2", ".", "5", ".", "1">>,
     <<"1", "2", "3", "4">>,
     <<"8", "6", "4", "0", "0">>,
     <<"1", "9", "7", "0", "-", "0", "1", "-", "0", "2", "T", "0", "0", ":", "0", "0", ":", "0", "0", "+", "0", "0", ":", "0", "0">>,
     <<"0", ".", "5">>}

\* the values of each logical type the model coerces
ValuesOf(data_type) ==
    CASE data_type = "bigint" -> {PyInt(n) : n \in (-MaxInt)..MaxInt}
      [] data_type = "wei" -> {PyInt(n) : n \in {0, 7, 1000}}
      [] data_type = "double" -> {PyFloat(n, 1) : n \in {0, 2, 86400}} \cup {PyFloat(5, 2), PyFloat(-1, 4)}
      [] data_type = "decimal" -> {PyDecimal(150, -2), PyDecimal(200, -2), PyDecimal(-5, -1), PyDecimal(2, 0), PyDecimal(1, 1)}
      [] data_type = "bool" -> {PyBool(TRUE), PyBool(FALSE)}
      [] data_type = "binary" -> {PyBytes(<<>>), PyBytes(<<0>>), PyBytes(<<255, 1>>)}
      [] data_type = "complex" -> {PyList(<<>>), PyList(<<1>>), PyList(<<1, -2>>)}
      [] data_type = "timestamp" -> {PyDatetime(0), PyDatetime(90061)}
      [] data_type = "text" -> {PyStr(t) : t \in Texts}

CoerceType ==
    /\ coerce_args # None
    /\ coerce_result = None
    /\ coerce_result' = Some(coerce_type(coerce_args[1].to_type, coerce_args[1].from_type,
                                         coerce_args[1].value))
    /\ UNCHANGED <<coerce_args, schemaVars, nameVars>>

-----------------------------------------------------------------------------
(* Specifications *)

IdleSchema == schema_dict = EmptyDict /\ heap = <<>> /\ raised = None /\ ops = <<>>
IdleName == name = <<>> /\ prev_name = <<>> /\ calls = 0
IdleCoerce == coerce_args = None /\ coerce_result = None

InitNormalize ==
    /\ name \in StringsUpTo(NameChars, MaxStrLen)
    /\ prev_name = <<>>
    /\ calls = 0
    /\ IdleSchema
    /\ IdleCoerce

NextNormalize == NormalizeSchemaName

SpecNormalize == InitNormalize /\ [][NextNormalize]_vars

InitUpgrade ==
    /\ InitVersions \/ InitParents \/ InitFilters
    /\ raised = None
    /\ ops = <<>>
    /\ IdleName
    /\ IdleCoerce

NextSchema == UpgradeEngineVersion \/ ApplyDefaults \/ RemoveDefaults

SpecUpgrade == InitUpgrade /\ [][NextSchema]_vars

InitDefaults ==
    /\ InitStored
    /\ raised = None
    /\ ops = <<>>
    /\ IdleName
    /\ IdleCoerce

SpecDefaults == InitDefaults /\ [][NextSchema]_vars

InitCoerce ==
    /\ \E to_type \in DataTypes : \E from_type \in DataTypes : \E value \in ValuesOf(from_type) :
            coerce_args = Some([to_type |-> to_type, from_type |-> from_type, value |-> value])
    /\ coerce_result = None
    /\ IdleSchema
    /\ IdleName

NextCoerce == CoerceType

SpecCoerce == InitCoerce /\ [][NextCoerce]_vars

-----------------------------------------------------------------------------
(* Claims about upgrade_engine_version *)

UpgradeCall == Call("upgrade_engine_version", 1, 3)
Tables == heap[schema_dict["tables"]]
\* the legacy tables mapping a migrated document started from
OldTables == heap[1]
\* the document has just been taken through the 2 -> 3 step
Migrated ==
    /\ Len(ops) = 1
    /\ ops[1].op = "upgrade_engine_version"
    /\ ops[1].from_engine \in {1, 2}
    /\ ops[1].to_engine > 2

LegacyKeys == {"hints", "preferred_types", "includes", "excludes"}

(* C1: upgrading a version 1 document to version 3 returns a document with  *)
(* engine_version 3, a non-empty normalizers block, settings holding        *)
(* default_hints and preferred_types (the legacy hints and preferred_types, *)
(* empty mappings when those were absent) and none of the top-level keys    *)
(* hints, preferred_types, includes, excludes.                              *)
C1_UpgradeV1ToV3 ==
    [][(ops = <<>> /\ ops' = <<UpgradeCall>>) =>
        /\ raised' = None
        /\ schema_dict'["engine_version"] = 3
        /\ "normalizers" \in DOMAIN schema_dict'
        /\ DOMAIN schema_dict'["normalizers"] # {}
        /\ "settings" \in DOMAIN schema_dict'
        /\ DOMAIN schema_dict'["settings"] = {"default_hints", "preferred_types"}
        /\ schema_dict'["settings"]["default_hints"] = DictGet(schema_dict, "hints", EmptyDict)
        /\ schema_dict'["settings"]["preferred_types"]
                = DictGet(schema_dict, "preferred_types", EmptyDict)
        /\ (DOMAIN schema_dict') \cap LegacyKeys = {}]_vars

\* a version 1 document with tables and hints but no preferred_types was upgraded to 3
C1_Witness ==
    /\ ops = <<UpgradeCall>>
    /\ schema_dict["settings"]["default_hints"] # EmptyDict
    /\ schema_dict["settings"]["preferred_types"] = EmptyDict
    /\ DOMAIN Tables # {}

\* number of consecutive "_" in s from 0-based position i on
UnderscoreRun(s, i) ==
    SetMax({k \in 0..(Len(s) - i) : \A j \in 1..k : s[i + j] = "_"})

\* the legacy tables that are the prefix of n ending before a "__" at one of `positions`
Ancestors(n, positions) ==
    {p \in ProperPrefixes(n) : Len(p) \in positions /\ p \in DOMAIN OldTables}
Longest(S) == CHOOSE p \in S : \A q \in S : Len(q) <= Len(p)
ParentIsLongest(n, S) ==
    IF S = {}
    THEN "parent" \notin DOMAIN Tables[n]
    ELSE "parent" \in DOMAIN Tables[n] /\ Tables[n]["parent"] = Longest(S)

(* C2 as stated: the parent of every legacy table is the longest proper     *)
(* prefix of its name that ends just before a "__" at a non-leading index   *)
(* and is itself a legacy table; with no such prefix the table is root.     *)
C2_ParentIsLongestPrefixBeforeAnySeparator ==
    Migrated =>
        \A n \in DOMAIN OldTables :
            ParentIsLongest(n, Ancestors(n, SepPositions(n) \ {0}))

\* the "__" positions the search visits: those whose underscores pair off from
\* the right end of their run of underscores
PairedPositions(n) == {i \in SepPositions(n) \ {0} : UnderscoreRun(n, i) % 2 = 0}

(* C2 as amended: the parent of every legacy table is the longest proper    *)
(* prefix of its name that is a legacy table and ends just before a "__" at *)
(* a non-leading index reached by repeatedly truncating at the last "__":   *)
(* in a run of underscores only every second position, counted from the     *)
(* right end of the run, is tried. With no such prefix the table is root.   *)
C2_ParentIsLongestPairedPrefix ==
    Migrated =>
        \A n \in DOMAIN OldTables :
            ParentIsLongest(n, Ancestors(n, PairedPositions(n)))

\* a table whose nearest truncation is not a table and whose parent was found further left
C2_Witness ==
    /\ Migrated
    /\ \E n \in DOMAIN OldTables :
        /\ "parent" \in DOMAIN Tables[n]
        /\ Len(Tables[n]["parent"]) < RFind(n)

\* what the claim takes a pattern apart into: the first "__"-delimited segment
\* of the pattern without its "^", and the remainder
ClaimedRoot(f) == LET b == Tail(f) IN IF Find(b) < 0 THEN b ELSE SubSeq(b, 1, Find(b))
ClaimedPath(f) == LET b == Tail(f) IN IF Find(b) < 0 THEN <<>> ELSE SubSeq(b, Find(b) + 3, Len(b))
\* the "^" + path of the patterns of `filters` owned by `root`, in order
RECURSIVE OwnedPaths(_, _)
OwnedPaths(filters, root) ==
    IF filters = <<>> THEN <<>>
    ELSE (IF ClaimedRoot(Head(filters)) = root
          THEN <<(<<"^">> \o ClaimedPath(Head(filters)))>>
          ELSE <<>>) \o OwnedPaths(Tail(filters), root)

(* C3: after the 2 -> 3 step every legacy filter pattern of group excludes  *)
(* or includes sits, as "^" + path, in filters[group] of the table named by *)
(* the pattern's first "__"-delimited segment, in legacy order; that table  *)
(* exists, as an empty root table if it was no legacy table. This for every *)
(* pattern, one without "__" included.                                      *)
C3_FiltersMoveToOwningRoot ==
    [][(ops = <<>> /\ ops' = <<Call("upgrade_engine_version", 2, 3)>>) =>
        \A group \in {"excludes", "includes"} :
            LET filters == DictGet(schema_dict, group, <<>>)
                tables == heap'[schema_dict'["tables"]]
            IN  \A i \in 1..Len(filters) :
                    LET root == ClaimedRoot(filters[i])
                    IN  /\ root \in DOMAIN tables
                        /\ "filters" \in DOMAIN tables[root]
                        /\ group \in DOMAIN tables[root]["filters"]
                        /\ tables[root]["filters"][group] = OwnedPaths(filters, root)
                        /\ root \notin DOMAIN heap[1] =>
                                /\ tables[root]["columns"] = EmptyDict
                                /\ "parent" \notin DOMAIN tables[root]]_vars

(* C4: upgrade_engine_version raises SchemaEngineNoUpgradePathException     *)
(* exactly when the version the migration chain reaches differs from        *)
(* to_engine: to_engine above 3, below from_engine, or from_engine outside  *)
(* 1..3 and different from to_engine. The exception carries the schema      *)
(* name, the version reached, which the document holds, and the target; a   *)
(* call that returns leaves the document at to_engine.                      *)
C4_NoUpgradePathExactlyWhenShort ==
    (Len(ops) = 1 /\ ops[1].op = "upgrade_engine_version") =>
        LET from_engine == ops[1].from_engine
            to_engine == ops[1].to_engine
            reached == schema_dict["engine_version"]
        IN  /\ (raised # None) <=>
                    (to_engine # from_engine
                        /\ (to_engine > 3 \/ to_engine < from_engine \/ from_engine \notin 1..3))
            /\ (raised # None) <=> (reached # to_engine)
            /\ raised # None =>
                    /\ raised[1].exception = "SchemaEngineNoUpgradePathException"
                    /\ raised[1].args = <<schema_dict["name"], reached, reached, to_engine>>

\* a version 1 document asked to reach version 5 was migrated to 3 and the call raised
C4_Witness ==
    /\ ops = <<Call("upgrade_engine_version", 1, 5)>>
    /\ raised # None
    /\ raised[1].args[3] = 3
    /\ schema_dict["engine_version"] = 3

-----------------------------------------------------------------------------
(* Claims about apply_defaults and remove_defaults *)

LastOp == ops[Len(ops)].op
\* the tables mapping the document held before the last remove_defaults
Before == heap[schema_dict["tables"] - 1]
Removed == ops # <<>> /\ LastOp = "remove_defaults" /\ raised = None

\* every table and column named, every column with all six hints
IsWorking(tables) ==
    \A n \in DOMAIN tables :
        /\ "name" \in DOMAIN tables[n]
        /\ \A c \in DOMAIN tables[n]["columns"] :
                HintNames \cup {"name"} \subseteq DOMAIN tables[n]["columns"][c]

(* C5: after remove_defaults on a schema in working form a hint key is in   *)
(* the stored column exactly when its working value was True, nullable is   *)
(* kept with its value, True or False, and no table or column has a name.   *)
C5_StoredHintsAreTheTrueOnes ==
    (Removed /\ IsWorking(Before)) =>
        /\ DOMAIN Tables = DOMAIN Before
        /\ \A n \in DOMAIN Before :
            /\ "name" \notin DOMAIN Tables[n]
            /\ DOMAIN Tables[n]["columns"] = DOMAIN Before[n]["columns"]
            /\ \A c \in DOMAIN Before[n]["columns"] :
                LET working == Before[n]["columns"][c]
                    stored == Tables[n]["columns"][c]
                IN  /\ "name" \notin DOMAIN stored
                    /\ \A h \in HintNames :
                        /\ h \in DOMAIN stored <=> working[h] = TRUE
                        /\ h \in DOMAIN stored => stored[h] = TRUE
                    /\ "nullable" \in DOMAIN stored
                    /\ stored["nullable"] = working["nullable"]

\* a working column with nullable False, a True hint and a False hint was collapsed
C5_Witness ==
    /\ Removed
    /\ IsWorking(Before)
    /\ LET working == Before[Str_a]["columns"]["id"]
       IN  /\ working["nullable"] = FALSE
           /\ working["unique"] = TRUE
           /\ working["sort"] = FALSE

EndsWithRoundTrip ==
    /\ Len(ops) >= 3
    /\ ops[Len(ops) - 2].op = "apply_defaults"
    /\ ops[Len(ops) - 1].op = "remove_defaults"
    /\ ops[Len(ops)].op = "apply_defaults"
    /\ raised = None

(* C6: apply_defaults, remove_defaults, apply_defaults again gives tables   *)
(* and columns equal to those after the first apply_defaults.               *)
C6_DefaultsRoundTrip == EndsWithRoundTrip => Tables = Before

\* the round trip was made on a column with nullable False, a True and a False hint
C6_Witness ==
    /\ EndsWithRoundTrip
    /\ LET column == Tables[Str_a]["columns"]["id"]
       IN  /\ column["nullable"] = FALSE
           /\ column["primary_key"] = TRUE
           /\ column["cluster"] = FALSE
    /\ Tables[Str_a]["write_disposition"] = "replace"

RemoveStep == ops' = Append(ops, Call("remove_defaults", 0, 0)) /\ raised' = None
ApplyStep == ops' = Append(ops, Call("apply_defaults", 0, 0))
\* the document as its holder reads it: with the tables it refers to
Document(d, h) == [d EXCEPT !["tables"] = h[d["tables"]]]

-----------------------------------------------------------------------------
(* Claims about coerce_type *)

Coerced == coerce_result # None
ToType == coerce_args[1].to_type
FromType == coerce_args[1].from_type
Value == coerce_args[1].value
Outcome == coerce_result[1]

\* the (to_type, from_type) pairs the claim lists as covered by rules 1-7
CoveredPairs ==
    {<<t, f>> \in DataTypes \X DataTypes :
        \/ t = f
        \/ t = "text"
        \/ t = "binary" /\ f \in {"text", "bigint"}
        \/ t \in {"bigint", "wei"} /\ f \in {"bigint", "decimal", "double", "text"}
        \/ t = "double" /\ f \in {"bigint", "wei", "decimal", "text"}
        \/ t = "decimal" /\ f \in {"bigint", "wei", "double", "text"}
        \/ t = "timestamp" /\ f \in {"bigint", "double", "text"}}

(* C8: coerce_type raises the final ValueError carrying the value for every *)
(* (to_type, from_type) pair outside the covered pairs, whatever the value, *)
(* and for no pair among them: the covered pairs are exactly those listed.  *)
C8_UncoveredPairsRaise ==
    Coerced =>
        IF <<ToType, FromType>> \in CoveredPairs
        THEN Outcome.line # 266
        ELSE Outcome = Raise("ValueError", Some(Value), 266)

\* a wei handed to bigint reached the final raise
C8_Witness ==
    /\ Coerced
    /\ ToType = "bigint" /\ FromType = "wei"
    /\ Value = PyInt(7)
    /\ Outcome.line = 266

\* the number a byte sequence reads as, least significant byte first
RECURSIVE LittleEndian(_)
LittleEndian(b) == IF b = <<>> THEN 0 ELSE Head(b) + 256 * LittleEndian(Tail(b))
\* ceil(bit_length(v) / 8): the least number of bytes that hold |v|
MinimalLength(v) == SetMin({k \in 0..3 : Abs(v) < Pow(256, k)})

(* C9: for every bigint v, zero, positive or negative, coercing it to       *)
(* binary returns ceil(bit_length(v) / 8) bytes that read, little-endian,   *)
(* as v, with no superfluous most significant zero byte.                    *)
C9_BigintToMinimalLittleEndian ==
    (Coerced /\ ToType = "binary" /\ FromType = "bigint") =>
        /\ Outcome.ok
        /\ LET bytes == Outcome.value[1].b
           IN  /\ Len(bytes) = MinimalLength(Value.n)
               /\ LittleEndian(bytes) = Value.n
               /\ bytes # <<>> => bytes[Len(bytes)] # 0

-----------------------------------------------------------------------------
(* C10: normalize_schema_name is idempotent: a second call on the result of *)
(* the first returns that result unchanged.                                *)
C10_NormalizeIdempotent == calls = 2 => name = prev_name

=============================================================================
